---------------------------- MODULE Spec2Model ----------------------------
(***************************************************************************)
(* Model of the spacecraft localizer: the menu of main.py, the analyze_*   *)
(* operations, the km -> AU / GSE -> heliocentric conversions of the MMS   *)
(* position, the scatter calls of the plotting functions, and the Parker   *)
(* spiral surface of psp_plus_mms_plus_parker_spiral.py.                   *)
(*                                                                         *)
(* Numbers.  Python floats are modelled in two ways, both on the reals:    *)
(*  - positions and the km-per-AU constants are exact rationals, written   *)
(*    as mixed numbers [w, n, d] = w + n/d with 0 <= n < d in lowest       *)
(*    terms, so that 149597870.7 and 1.4959787e8 stay different numbers;   *)
(*  - the quantities of compute_parker_spiral_surface, which go through    *)
(*    sin, cos and sqrt, are fixed-point integers in units of 1/Scale.     *)
(* Rounding of IEEE doubles is not modelled.                               *)
(***************************************************************************)
EXTENDS Integers, Sequences, FiniteSets, TLC

\* ------------------------------------------------------------------------
\* Fixed-point reals (units of 1/Scale) for the surface model
\* ------------------------------------------------------------------------

\* resolution of the fixed-point reals: 0.001
Scale == 10 ^ 3

\* the value numpy gives 1 / 0.0 (a RuntimeWarning, no exception)
Inf == 2 ^ 30

Abs(a) == IF a < 0 THEN -a ELSE a

\* a * b and a / b on fixed-point reals; the product is (a * b) \div Scale,
\* formed from the whole and the fractional part of the larger factor so
\* that it stays within the machine integers whenever the result does
Mul(a, b) ==
    LET x == a
        y == b
        swap == Abs(x) < Abs(y)
        big == IF swap THEN y ELSE x
        small == IF swap THEN x ELSE y
    IN  (big \div Scale) * small + ((big % Scale) * small) \div Scale
Div(a, b) == (a * Scale) \div b

RECURSIVE ISqrtFrom(_, _)
ISqrtFrom(n, g) ==
    LET h == (g + n \div g) \div 2
    IN  IF h >= g THEN g ELSE ISqrtFrom(n, h)

\* floor of the square root of a natural number (Newton's iteration from a
\* first guess above the root)
ISqrt(n) ==
    IF n <= 0 THEN 0
    ELSE ISqrtFrom(n, IF n < 10 ^ 4 THEN 10 ^ 2
                      ELSE IF n < 10 ^ 6 THEN 10 ^ 3
                      ELSE IF n < 10 ^ 8 THEN 10 ^ 4 ELSE 46341)

\* np.sqrt on a fixed-point real
Sqrt(a) == IF a < 2 * 10 ^ 6 THEN ISqrt(a * Scale) ELSE 100 * ISqrt(a \div 10)

\* np.pi and 2 * np.pi
Pi == 3142
TwoPi == 6283

\* np.sin: the angle reduced to [0, 2 pi), then Bhaskara's rational
\* approximation 16 t (pi - t) / (5 pi^2 - 4 t (pi - t)) on [0, pi]
SinHalf(t) ==
    LET p == (t * (Pi - t)) \div Scale
    IN  (16 * p * Scale) \div ((5 * Pi * Pi) \div Scale - 4 * p)

Sin(a) ==
    LET t == a % TwoPi
    IN  IF t <= Pi THEN SinHalf(t) ELSE -SinHalf(IF t - Pi > Pi THEN Pi ELSE t - Pi)

\* np.cos(a) = sin(a + pi / 2)
Cos(a) == Sin(a + Pi \div 2)

\* np.radians on a fixed-point number of degrees
Radians(deg) == (deg * Pi) \div (180 * Scale)

\* ------------------------------------------------------------------------
\* Exact rationals (mixed numbers) for positions
\* ------------------------------------------------------------------------

RECURSIVE Gcd(_, _)
Gcd(a, b) == IF b = 0 THEN a ELSE Gcd(b, a % b)

\* num / den (den > 0) as the mixed number w + n/d in lowest terms
MkRat(num, den) ==
    LET w == num \div den
        n == num % den
        g == Gcd(den, n)
    IN  [w |-> w, n |-> n \div g, d |-> den \div g]

RInt(k) == [w |-> k, n |-> 0, d |-> 1]

\* t / 10: a decimal with one digit after the point
Tenths(t) == MkRat(t, 10)

\* a + b
RatAdd(a, b) ==
    LET num == a.n * b.d + b.n * a.d
        den == a.d * b.d
        f == MkRat(num, den)
    IN  [w |-> a.w + b.w + f.w, n |-> f.n, d |-> f.d]

\* a / K for a decimal a with at most one digit after the point and the
\* constant K given in tenths (K = k10 / 10): a / K = (10 a) / k10
RatDivConst(a, k10) == MkRat((a.w * a.d + a.n) * (10 \div a.d), k10)

Vec(x, y, z) == <<x, y, z>>

\* ------------------------------------------------------------------------
\* Positions: the tuple a fetch returns, with the frame and unit its
\* docstring states
\* ------------------------------------------------------------------------

None == [some |-> FALSE, v |-> <<>>, frame |-> "none", unit |-> "none"]

\* fetch_psp_position_horizons: "(x, y, z) in AU relative to the Sun"
PspPosition(v) == [some |-> TRUE, v |-> v, frame |-> "heliocentric", unit |-> "AU"]

\* fetch_mms_position: "(x, y, z) in kilometers in GSE coordinates"
MmsPosition(v) == [some |-> TRUE, v |-> v, frame |-> "GSE", unit |-> "km"]

\* what the remote services may answer
PspFetched ==
    { Vec(Tenths(5), RInt(0), RInt(0)),
      Vec(Tenths(-3), Tenths(2), Tenths(1)) }

MmsFetched ==
    { Vec(Tenths(1495978707), Tenths(1495978707), RInt(0)),
      Vec(RInt(149597870), RInt(0), RInt(-149597870)),
      Vec(RInt(63780), RInt(-12000), RInt(5000)) }

\* the unit of a quantity after division by a km-per-AU constant
UnitAfterDiv(u) == IF u = "km" THEN "AU" ELSE "AU*AU/km"

\* the frame of a position after Earth's heliocentric position is added
FrameAfterShift(f) == IF f = "GSE" THEN "heliocentric" ELSE "shifted " \o f

\* km per AU as written at each conversion site, in tenths of a kilometre
AU_km_plot_spacecraft_positions == 1495978707
AU_plot_both_positions == 1495978707
AU_plot_positions == 1495978707
AU_km_analyze_psp_mms_parker == 1495978700
AU_km_parker_main == 1495978700

\* (p[0] / K, p[1] / K, p[2] / K)
DivideBy(p, k10) ==
    [p EXCEPT !.v = Vec(RatDivConst(p.v[1], k10), RatDivConst(p.v[2], k10),
                        RatDivConst(p.v[3], k10)),
              !.unit = UnitAfterDiv(p.unit)]

\* (e[0] + p[0], e[1] + p[1], e[2] + p[2])
ShiftBy(e, p) ==
    [p EXCEPT !.v = Vec(RatAdd(e[1], p.v[1]), RatAdd(e[2], p.v[2]),
                        RatAdd(e[3], p.v[3])),
              !.frame = FrameAfterShift(p.frame)]

earth_heliocentric == Vec(RInt(1), RInt(0), RInt(0))

\* plot_spacecraft_positions, lines 92-105
MmsHeliocentric_plot_spacecraft_positions(mms_pos) ==
    ShiftBy(earth_heliocentric, DivideBy(mms_pos, AU_km_plot_spacecraft_positions))

\* analyze_psp_mms_parker, lines 166-169: (1.0 + x / K, y / K, z / K)
MmsHelio_analyze_psp_mms_parker(mms_pos) ==
    LET mms_pos_au == DivideBy(mms_pos, AU_km_analyze_psp_mms_parker)
    IN  [mms_pos_au EXCEPT !.v = Vec(RatAdd(RInt(1), mms_pos_au.v[1]),
                                     mms_pos_au.v[2], mms_pos_au.v[3]),
                           !.frame = FrameAfterShift(mms_pos_au.frame)]

\* main of the Parker-spiral module, lines 284-290
MmsHeliocentric_parker_main(mms_pos) ==
    ShiftBy(earth_heliocentric, DivideBy(mms_pos, AU_km_parker_main))

\* a scatter call: the body's label and the coordinates handed to ax.scatter
Scatter(body, p) == [body |-> body, v |-> p.v, frame |-> p.frame, unit |-> p.unit]

\* a marker drawn at literal coordinates
Marker(body, x, y, z) ==
    [body |-> body, v |-> Vec(RInt(x), RInt(y), RInt(z)), frame |-> "literal", unit |-> "AU"]

\* the scatter calls of each plotting function, in call order
plot_spacecraft_positions(psp_pos, mms_pos) ==
    << Scatter("PSP", psp_pos),
       Scatter("MMS", MmsHeliocentric_plot_spacecraft_positions(mms_pos)),
       Marker("Sun", 0, 0, 0),
       Marker("Earth", 1, 0, 0) >>

plot_both_positions(psp_pos, mms_pos) ==
    << Scatter("PSP", DivideBy(psp_pos, AU_plot_both_positions)),
       Scatter("MMS", DivideBy(mms_pos, AU_plot_both_positions)),
       Marker("Earth", 0, 0, 0),
       Marker("Sun", 1, 0, 0) >>

mms_plot_positions(mms_pos) ==
    << Scatter("MMS", DivideBy(mms_pos, AU_plot_positions)),
       Marker("Earth", 0, 0, 0),
       Marker("Sun", 1, 0, 0) >>

jpl_plot_positions(psp_pos) ==
    << Scatter("PSP", psp_pos),
       Marker("Sun", 0, 0, 0),
       Marker("Earth", 1, 0, 0) >>

plot_positions_with_parker(psp_pos, mms_pos) ==
    << Marker("Sun", 0, 0, 0),
       Marker("Earth", 1, 0, 0),
       Scatter("PSP", psp_pos),
       Scatter("MMS", mms_pos) >>

parker_main_plot(psp_pos, mms_heliocentric) ==
    << Marker("Sun", 0, 0, 0),
       Marker("Earth", 1, 0, 0),
       Scatter("PSP", psp_pos),
       Scatter("MMS", mms_heliocentric) >>

\* ------------------------------------------------------------------------
\* compute_parker_spiral_surface
\* ------------------------------------------------------------------------

\* km per AU as written in compute_parker_spiral_surface (1.4959787e8),
\* in tenths of a kilometre
AU_km_surface == 1495978700

\* seconds per day, in hundreds of seconds (the literal 86400)
SecPerDay100 == 864

\* the keyword defaults of compute_parker_spiral_surface
Default_r_min == 100
Default_r_max == 1500
Default_n_r == 100
Default_n_phi == 100
Default_tilt_deg == 10000
Default_amp_deg == 15000
Default_solar_rot_days == 25400
Default_v_sw_km_s == 400000

DefaultArgs ==
    [r_min |-> Default_r_min, r_max |-> Default_r_max,
     n_r |-> Default_n_r, n_phi |-> Default_n_phi,
     tilt_deg |-> Default_tilt_deg, amp_deg |-> Default_amp_deg,
     solar_rot_days |-> Default_solar_rot_days, v_sw_km_s |-> Default_v_sw_km_s]

\* a numpy array holds its values: the sequence with every element
\* evaluated (one- and two-dimensional)
Array1(f) == f \o <<>>
Array2(m) == Array1([i \in DOMAIN m |-> Array1(m[i])])

\* np.linspace(start, stop, num, endpoint=False): the step is
\* (stop - start) / num and stop itself is not a sample
Linspace_NoEndpoint(start, stop, num) ==
    Array1([k \in 1..num |-> start + ((k - 1) * (stop - start)) \div num])

\* np.linspace(start, stop, num): num samples start + k * (stop - start) /
\* (num - 1), the last one set to stop itself
Linspace(start, stop, num) ==
    Array1([k \in 1..num |->
        IF num > 1 /\ k = num THEN stop
        ELSE IF num = 1 THEN start
        ELSE start + ((k - 1) * (stop - start)) \div (num - 1)])

\* np.meshgrid(r_vals, phi_vals, indexing='ij'): both grids have shape
\* (len(r_vals), len(phi_vals))
Meshgrid_ij(xs, ys) ==
    <<Array2([i \in 1..Len(xs) |-> [j \in 1..Len(ys) |-> xs[i]]]),
      Array2([i \in 1..Len(xs) |-> [j \in 1..Len(ys) |-> ys[j]]])>>

\* np.meshgrid(r_vals, phi_vals), default indexing 'xy': both grids have
\* shape (len(phi_vals), len(r_vals))
Meshgrid(xs, ys) ==
    <<Array2([i \in 1..Len(ys) |-> [j \in 1..Len(xs) |-> xs[j]]]),
      Array2([i \in 1..Len(ys) |-> [j \in 1..Len(xs) |-> ys[i]]])>>

\* omega = 2 * np.pi / solar_rot_days (Python floats: a zero divisor raises)
Omega(a) == Div(TwoPi, a.solar_rot_days)

\* v_sw_AU_day = (v_sw_km_s * 86400) / AU_km
V_sw_AU_day(a) == (a.v_sw_km_s * SecPerDay100) \div (AU_km_surface \div 1000)

\* alpha = omega / v_sw_AU_day
Alpha(a) == Div(Omega(a), V_sw_AU_day(a))

\* the exception the scalar prologue (lines 37-39) raises, or "none"
Raises(a) ==
    IF a.solar_rot_days = 0 THEN "ZeroDivisionError"
    ELSE IF V_sw_AU_day(a) = 0 THEN "ZeroDivisionError"
    ELSE "none"

R_vals(a) == Linspace(a.r_min, a.r_max, a.n_r)
Phi_vals(a) == Linspace(0, TwoPi, a.n_phi)
RGrid(a) == Meshgrid(R_vals(a), Phi_vals(a))[1]
PhiGrid(a) == Meshgrid(R_vals(a), Phi_vals(a))[2]

\* tilt = np.radians(tilt_deg), amp = np.radians(amp_deg)
Tilt(a) == Radians(a.tilt_deg)
Amp(a) == Radians(a.amp_deg)

\* theta = (np.pi / 2 - tilt) + amp * np.sin(2 * Phi), one cell
ThetaCell(tilt, amp, phi) == (Pi \div 2 - tilt) + Mul(amp, Sin(2 * phi))

\* a twist alpha * (r_min - R): the spiral wound the other way
TwistCell_Inward(alpha, r_min, r) == Mul(alpha, r_min - r)

\* a twist alpha * R, not anchored at the inner radius
TwistCell_Unanchored(alpha, r_min, r) == Mul(alpha, r)

\* alpha * (R - r_min), one cell
TwistCell(alpha, r_min, r) == Mul(alpha, r - r_min)

\* Phi_spiral = Phi + alpha * (R - r_min), one cell
PhiSpiralCell(alpha, r_min, r, phi) == phi + TwistCell(alpha, r_min, r)

\* x = R * np.sin(theta) * np.cos(Phi_spiral), and y and z, one cell
XCell(r, theta, phi_spiral) == Mul(Mul(r, Sin(theta)), Cos(phi_spiral))
YCell(r, theta, phi_spiral) == Mul(Mul(r, Sin(theta)), Sin(phi_spiral))
ZCell(r, theta) == Mul(r, Cos(theta))

\* B0_norm = 1 / np.sqrt(1 + (omega / v_sw_AU_day)**2 * (np.cos(tilt))**2)
B0_norm(a) ==
    LET w == Div(Omega(a), V_sw_AU_day(a))
        c == Cos(Tilt(a))
    IN  Div(Scale, Sqrt(Scale + Mul(Mul(w, w), Mul(c, c))))

\* a signed field: the magnitude with the polarity of the hemisphere, negative
\* below the equatorial plane (theta > pi / 2)
BCell_Signed(b0, omega, v, r, theta) ==
    IF r = 0 THEN Inf
    ELSE LET inv == Div(Scale, r)
             w == Div(Mul(omega, r), v)
             s == Sin(theta)
             mag == Mul(Mul(b0, Mul(inv, inv)),
                        Sqrt(Scale + Mul(Mul(w, w), Mul(s, s))))
         IN  IF Cos(theta) < 0 THEN -mag ELSE mag

\* B = B0_norm * (1 / R)**2 * np.sqrt(1 + (omega * R / v_sw_AU_day)**2
\*                                        * (np.sin(theta))**2), one cell;
\* numpy gives 1 / 0.0 = inf, and inf for the products of it
BCell(b0, omega, v, r, theta) ==
    IF r = 0 THEN Inf
    ELSE LET inv == Div(Scale, r)
             w == Div(Mul(omega, r), v)
             s == Sin(theta)
         IN  Mul(Mul(b0, Mul(inv, inv)), Sqrt(Scale + Mul(Mul(w, w), Mul(s, s))))

\* the grids of lines 47 and 50, and the twist term of line 50
ThetaGrid(a) ==
    LET Phi == PhiGrid(a)
        tilt == Tilt(a)
        amp == Amp(a)
    IN  Array2([i \in DOMAIN Phi |->
                  [j \in DOMAIN Phi[i] |-> ThetaCell(tilt, amp, Phi[i][j])]])

TwistGrid(a) ==
    LET R == RGrid(a)
        alpha == Alpha(a)
    IN  Array2([i \in DOMAIN R |->
                  [j \in DOMAIN R[i] |-> TwistCell(alpha, a.r_min, R[i][j])]])

PhiSpiralGrid(a) ==
    LET R == RGrid(a)
        Phi == PhiGrid(a)
        alpha == Alpha(a)
    IN  Array2([i \in DOMAIN Phi |->
                  [j \in DOMAIN Phi[i] |->
                      PhiSpiralCell(alpha, a.r_min, R[i][j], Phi[i][j])]])

\* the call: an exception from the scalar prologue, or the tuple x, y, z, B
compute_parker_spiral_surface(a) ==
    IF Raises(a) # "none"
    THEN [status |-> Raises(a)]
    ELSE LET omega == Omega(a)
             v_sw_AU_day == V_sw_AU_day(a)
             R == RGrid(a)
             theta == ThetaGrid(a)
             Phi_spiral == PhiSpiralGrid(a)
             b0 == B0_norm(a)
         IN  [status |-> "ok",
              x |-> Array2([i \in DOMAIN R |-> [j \in DOMAIN R[i] |->
                        XCell(R[i][j], theta[i][j], Phi_spiral[i][j])]]),
              y |-> Array2([i \in DOMAIN R |-> [j \in DOMAIN R[i] |->
                        YCell(R[i][j], theta[i][j], Phi_spiral[i][j])]]),
              z |-> Array2([i \in DOMAIN R |-> [j \in DOMAIN R[i] |->
                        ZCell(R[i][j], theta[i][j])]]),
              B |-> Array2([i \in DOMAIN R |-> [j \in DOMAIN R[i] |->
                        BCell(b0, omega, v_sw_AU_day, R[i][j], theta[i][j])]])]

\* compute_parker_spiral_surface() as plot_positions_with_parker calls it
\* (line 193): every keyword at its default
SurfaceOfDefaults == compute_parker_spiral_surface(DefaultArgs)

\* ------------------------------------------------------------------------
\* Text entry: input() returns a string, here a sequence of characters
\* ------------------------------------------------------------------------

Digits == {"0", "1", "2", "3", "4", "5", "6", "7", "8", "9"}

DigitVal(c) ==
    CASE c = "0" -> 0 [] c = "1" -> 1 [] c = "2" -> 2 [] c = "3" -> 3
      [] c = "4" -> 4 [] c = "5" -> 5 [] c = "6" -> 6 [] c = "7" -> 7
      [] c = "8" -> 8 [] c = "9" -> 9

RECURSIVE LStrip(_)
LStrip(t) == IF t # <<>> /\ Head(t) = " " THEN LStrip(Tail(t)) ELSE t

RECURSIVE RStrip(_)
RStrip(t) ==
    IF t # <<>> /\ t[Len(t)] = " " THEN RStrip(SubSeq(t, 1, Len(t) - 1)) ELSE t

\* str.strip()
Strip(t) == RStrip(LStrip(t))

RECURSIVE DigitsVal(_)
DigitsVal(t) ==
    IF t = <<>> THEN 0 ELSE 10 * DigitsVal(SubSeq(t, 1, Len(t) - 1)) + DigitVal(t[Len(t)])

AllDigits(t) == \A k \in 1..Len(t) : t[k] \in Digits

ValueError == [ok |-> FALSE, value |-> 0]

\* int(text): surrounding blanks and a sign allowed, then digits only
ParseInt(text) ==
    LET t == Strip(text)
        neg == t # <<>> /\ Head(t) = "-"
        u == IF t # <<>> /\ Head(t) \in {"-", "+"} THEN Tail(t) ELSE t
    IN  IF u = <<>> \/ ~AllDigits(u) THEN ValueError
        ELSE [ok |-> TRUE, value |-> IF neg THEN -DigitsVal(u) ELSE DigitsVal(u)]

\* the fraction digits f of "i.f" in units of 1/Scale (three digits kept)
FracVal(f) ==
    LET g == SubSeq(f \o <<"0", "0", "0">>, 1, 3)
    IN  DigitsVal(g)

\* float(text) for plain decimal notation, as a fixed-point real
ParseFloat(text) ==
    LET t == Strip(text)
        neg == t # <<>> /\ Head(t) = "-"
        u == IF t # <<>> /\ Head(t) \in {"-", "+"} THEN Tail(t) ELSE t
        dots == {k \in 1..Len(u) : u[k] = "."}
        dot == IF dots = {} THEN Len(u) + 1 ELSE CHOOSE k \in dots : TRUE
        ip == SubSeq(u, 1, dot - 1)
        fp == SubSeq(u, dot + 1, Len(u))
        mag == DigitsVal(ip) * Scale + FracVal(fp)
    IN  IF Cardinality(dots) > 1 \/ ~AllDigits(ip) \/ ~AllDigits(fp)
           \/ (ip = <<>> /\ fp = <<>>)
        THEN ValueError
        ELSE [ok |-> TRUE, value |-> IF neg THEN -mag ELSE mag]

\* a get_input that accepts strictly positive numbers only and falls back
\* to the default for every other entry
get_input_Positive(text, default) ==
    IF Strip(text) = <<>> THEN default
    ELSE IF ParseFloat(text).ok /\ ParseFloat(text).value > 0
         THEN ParseFloat(text).value
    ELSE default

\* get_input(prompt, default), lines 11-22, given the text input() returned
get_input(text, default) ==
    IF Strip(text) = <<>> THEN default
    ELSE IF ParseFloat(text).ok THEN ParseFloat(text).value
    ELSE default

\* ------------------------------------------------------------------------
\* Bounds and inputs of the model
\* ------------------------------------------------------------------------

\* largest n_r and n_phi of a direct call of compute_parker_spiral_surface
MaxGrid == 3

\* how many calls a caller of compute_parker_spiral_surface makes in a row
MaxCalls == 3

\* how many of the five prompts of main() are answered with a number
MaxEntered == 1

Txt0 == <<"0">>
Txt3 == <<"3">>
Txt27 == <<"2", "7">>
Txt30 == <<"3", "0", ".", "0">>
Txt800 == <<" ", "8", "0", "0">>
TxtEmpty == <<>>
TxtBlank == <<" ", " ">>
TxtAbc == <<"a", "b", "c">>
TxtNeg27 == <<"-", "2", "7">>
TxtNeg400 == <<"-", "4", "0", "0", " ">>
Txt005 == <<"0", ".", "0", "5">>

\* the prompts of main() (lines 254-258), in order, and the default each
\* passes to get_input
PromptOrder == <<"tilt_deg", "amp_deg", "solar_rot_days", "v_sw_km_s", "r_max">>

PromptDefault(opt) ==
    CASE opt = "tilt_deg" -> 10000
      [] opt = "amp_deg" -> 15000
      [] opt = "solar_rot_days" -> 25400
      [] opt = "v_sw_km_s" -> 400000
      [] opt = "r_max" -> 1500

\* what the user may type at each prompt
TextsFor(opt) ==
    {TxtEmpty, TxtBlank, TxtAbc} \cup
    (CASE opt = "tilt_deg" -> {Txt30}
       [] opt = "amp_deg" -> {Txt0}
       [] opt = "solar_rot_days" -> {Txt0, Txt27, TxtNeg27}
       [] opt = "v_sw_km_s" -> {Txt0, Txt800, TxtNeg400}
       [] opt = "r_max" -> {Txt3, Txt0, Txt005})

\* what the user may type at the menus of main.py
MenuTexts == { <<"1">>, <<"2">>, <<" ", "3">>, <<"4">>, <<"0">>, <<"5">>,
               <<"2", ".", "0">>, TxtAbc, TxtEmpty }

\* the arguments of the direct calls of compute_parker_spiral_surface
DirectArgs ==
    [r_min : {100, 500, 0, -100}, r_max : {1500, 300, 100},
     n_r : 1..MaxGrid, n_phi : 1..MaxGrid,
     tilt_deg : {10000, 0}, amp_deg : {15000},
     solar_rot_days : {25400, 0, -25400},
     v_sw_km_s : {400000, 800000, 0, -400000}]

\* the arguments of a caller that calls several times
RepeatArgs ==
    {[DefaultArgs EXCEPT !.n_r = 2, !.n_phi = 3],
     [DefaultArgs EXCEPT !.n_r = 2, !.n_phi = 3, !.v_sw_km_s = 800000],
     [DefaultArgs EXCEPT !.n_r = 3, !.n_phi = 2, !.r_max = 3000]}

NoArgs == [r_min |-> 0, r_max |-> 0, n_r |-> 0, n_phi |-> 0, tilt_deg |-> 0,
           amp_deg |-> 0, solar_rot_days |-> 0, v_sw_km_s |-> 0]

NoSurface == [status |-> "none"]

\* the outcomes of the two fetches: PSP's raises on failure, MMS's catches
\* every exception and returns None
PspOutcomes ==
    {[ok |-> TRUE, pos |-> PspPosition(v)] : v \in PspFetched}
    \cup {[ok |-> FALSE, pos |-> None]}

MmsOutcomes == {MmsPosition(v) : v \in MmsFetched} \cup {None}

\* ------------------------------------------------------------------------
\* State
\* ------------------------------------------------------------------------

VARIABLES
    entry,          \* the entry point of this run
    pc,             \* where the run is
    spacecraft,     \* get_user_input's first result
    analysis,       \* get_user_input's second result / analysis_type
    called,         \* the analyze_* functions invoked, in order
    psp_pos,        \* what fetch_psp_position_horizons returned
    mms_pos,        \* what fetch_mms_position returned
    scene,          \* the scatter calls of the figure drawn
    km_per_au_used, \* the km-per-AU divisor each executed conversion used
    prompted,       \* the prompts main() of the Parker module has shown
    locals,         \* the values get_input returned to main()
    n_entered,      \* how many of them were parsed from the text typed
    args,           \* the arguments of the compute_parker_spiral_surface call
    surface,        \* what that call returned or raised
    printed,        \* the messages printed
    calls,          \* the compute_parker_spiral_surface calls of a caller that
                    \* makes several: each call's arguments and what it gave
    outcome         \* "running", "returned" or the exception that escaped

vars == <<entry, pc, spacecraft, analysis, called, psp_pos, mms_pos, scene,
          km_per_au_used, prompted, locals, n_entered, args, surface,
          printed, calls, outcome>>

EntryPc ==
    { <<"main.py", "menu_spacecraft">>,
      <<"psp_plus_mms.main", "psp_plus_mms.main">>,
      <<"parker.main", "parker.prompts">>,
      <<"mms.main", "mms.main">>,
      <<"jpl.main", "jpl.main">>,
      <<"compute_parker_spiral_surface", "call">>,
      <<"caller", "calls">> }

Spacecrafts == {"psp", "mms", "psp+mms", "psp+mms+parker"}
AnalysisTypes == {"trajectory", "data_retrieval", "plot"}

Init ==
    /\ \/ \E e \in EntryPc :
            entry = e[1] /\ pc = e[2] /\ spacecraft = "" /\ analysis = ""
       \/ \* an analyze_* function called directly
          entry = "analyze" /\ pc = "dispatch"
          /\ spacecraft \in Spacecrafts /\ analysis \in AnalysisTypes
    /\ called = <<>>
    /\ psp_pos = None
    /\ mms_pos = None
    /\ scene = <<>>
    /\ km_per_au_used = {}
    /\ prompted = <<>>
    /\ locals = <<>>
    /\ n_entered = 0
    /\ args = NoArgs
    /\ surface = NoSurface
    /\ printed = {}
    /\ calls = <<>>
    /\ outcome = "running"

Used(site, k10) == [site |-> site, value |-> k10]

\* ------------------------------------------------------------------------
\* main.py
\* ------------------------------------------------------------------------

spacecraft_map(n) ==
    CASE n = 1 -> "psp" [] n = 2 -> "mms" [] n = 3 -> "psp+mms" [] n = 4 -> "psp+mms+parker"

analysis_map(n) == CASE n = 1 -> "trajectory" [] n = 2 -> "data_retrieval"

\* a first loop that gives up after one entry: whatever was typed, the
\* function goes on to the analysis menu
GetSpacecraftChoice_OneTry ==
    /\ pc = "menu_spacecraft"
    /\ \E text \in MenuTexts :
         LET r == ParseInt(text)
         IN  IF r.ok /\ 1 <= r.value /\ r.value <= 4
             THEN /\ spacecraft' = spacecraft_map(r.value)
                  /\ UNCHANGED printed
             ELSE /\ printed' = printed \cup
                        {IF r.ok THEN "Please enter a number between 1 and 4"
                                 ELSE "Please enter a valid number"}
                  /\ UNCHANGED spacecraft
    /\ pc' = "menu_analysis"
    /\ UNCHANGED <<calls, entry, analysis, called, psp_pos, mms_pos, scene,
                   km_per_au_used, prompted, locals, n_entered, args,
                   surface, outcome>>

\* one turn of the first while loop of get_user_input (lines 18-25)
GetSpacecraftChoice ==
    /\ pc = "menu_spacecraft"
    /\ \E text \in MenuTexts :
         LET r == ParseInt(text)
         IN  IF r.ok /\ 1 <= r.value /\ r.value <= 4
             THEN /\ spacecraft' = spacecraft_map(r.value)
                  /\ pc' = "menu_analysis"
                  /\ UNCHANGED printed
             ELSE /\ printed' = printed \cup
                        {IF r.ok THEN "Please enter a number between 1 and 4"
                                 ELSE "Please enter a valid number"}
                  /\ UNCHANGED <<spacecraft, pc>>
    /\ UNCHANGED <<calls, entry, analysis, called, psp_pos, mms_pos, scene,
                   km_per_au_used, prompted, locals, n_entered, args,
                   surface, outcome>>

\* one turn of the second while loop of get_user_input (lines 41-48); with a
\* valid choice get_user_input returns and main() goes on to its if chain
GetAnalysisChoice ==
    /\ pc = "menu_analysis"
    /\ \E text \in MenuTexts :
         LET r == ParseInt(text)
         IN  IF r.ok /\ 1 <= r.value /\ r.value <= 2
             THEN /\ analysis' = analysis_map(r.value)
                  /\ pc' = "dispatch"
                  /\ UNCHANGED printed
             ELSE /\ printed' = printed \cup
                        {IF r.ok THEN "Please enter either 1 or 2"
                                 ELSE "Please enter a valid number"}
                  /\ UNCHANGED <<analysis, pc>>
    /\ UNCHANGED <<calls, entry, spacecraft, called, psp_pos, mms_pos, scene,
                   km_per_au_used, prompted, locals, n_entered, args,
                   surface, outcome>>

\* Ctrl-C at one of the menu prompts: main() catches KeyboardInterrupt
\* (lines 76-77)
Interrupt ==
    /\ pc \in {"menu_spacecraft", "menu_analysis"}
    /\ printed' = printed \cup {"Program terminated by user"}
    /\ pc' = "exit_prompt"
    /\ UNCHANGED <<calls, entry, spacecraft, analysis, called, psp_pos, mms_pos,
                   scene, km_per_au_used, prompted, locals, n_entered, args,
                   surface, outcome>>

\* input("Press Enter to exit...") (line 81)
PressEnter ==
    /\ pc = "exit_prompt"
    /\ printed' = printed \cup {"Press Enter to exit..."}
    /\ pc' = "done"
    /\ outcome' = "returned"
    /\ UNCHANGED <<calls, entry, spacecraft, analysis, called, psp_pos, mms_pos,
                   scene, km_per_au_used, prompted, locals, n_entered, args,
                   surface>>

\* a main() without its last line: the run ends where the analyze_* function
\* returns
Return_NoExitPrompt ==
    /\ pc' = "done"
    /\ outcome' = "returned"

\* where an analyze_* function returns to
Return ==
    /\ pc' = IF entry = "main.py" THEN "exit_prompt" ELSE "done"
    /\ outcome' = IF entry = "main.py" THEN outcome ELSE "returned"

\* the function the if chain of main() (lines 67-74) calls
analyze_function(sc) ==
    CASE sc = "psp" -> "analyze_psp"
      [] sc = "mms" -> "analyze_mms"
      [] sc = "psp+mms" -> "analyze_psp_mms"
      [] sc = "psp+mms+parker" -> "analyze_psp_mms_parker"

\* Ctrl-C while the analyze_* function runs: its except clauses catch
\* Exception only, so KeyboardInterrupt leaves it; main() catches it (lines
\* 76-77), a direct caller does not
InterruptAnalysis ==
    /\ pc = "dispatch"
    /\ called' = Append(called, analyze_function(spacecraft))
    /\ IF entry = "main.py"
       THEN /\ printed' = printed \cup {"Program terminated by user"}
            /\ pc' = "exit_prompt"
            /\ UNCHANGED outcome
       ELSE /\ pc' = "done"
            /\ outcome' = "KeyboardInterrupt"
            /\ UNCHANGED printed
    /\ UNCHANGED <<calls, entry, spacecraft, analysis, psp_pos, mms_pos,
                   scene, km_per_au_used, prompted, locals, n_entered, args,
                   surface>>

\* analyze_* functions that fetch PSP's position before they look at the
\* analysis type
NotTrajectory_Fetching(what) ==
    /\ analysis # "trajectory"
    /\ \E v \in PspFetched : psp_pos' = PspPosition(v)
    /\ printed' = printed \cup
         {IF analysis = "data_retrieval"
          THEN what \o " data retrieval not yet implemented"
          ELSE "Unknown analysis type"}
    /\ UNCHANGED <<mms_pos, scene, km_per_au_used, args, surface>>

\* the branches every analyze_* function has for the other analysis types
NotTrajectory(what) ==
    /\ analysis # "trajectory"
    /\ printed' = printed \cup
         {IF analysis = "data_retrieval"
          THEN what \o " data retrieval not yet implemented"
          ELSE "Unknown analysis type"}
    /\ UNCHANGED <<psp_pos, mms_pos, scene, km_per_au_used, args, surface>>

\* ------------------------------------------------------------------------
\* jpl_approach_psp.py
\* ------------------------------------------------------------------------

\* analyze_psp (lines 65-81)
AnalyzePsp ==
    /\ pc = "dispatch" /\ spacecraft = "psp"
    /\ called' = Append(called, "analyze_psp")
    /\ \/ /\ analysis = "trajectory"
          /\ \E p \in PspOutcomes :
               IF p.ok
               THEN /\ psp_pos' = p.pos
                    /\ printed' = printed \cup {"PSP Position (km)"}
               ELSE /\ printed' = printed \cup {"Error getting PSP trajectory"}
                    /\ UNCHANGED psp_pos
          /\ UNCHANGED <<mms_pos, scene, km_per_au_used, args, surface>>
       \/ NotTrajectory("PSP")
    /\ Return
    /\ UNCHANGED <<calls, entry, spacecraft, analysis, prompted, locals, n_entered>>

\* main (lines 83-89)
JplMain ==
    /\ pc = "jpl.main"
    /\ \E p \in PspOutcomes :
         IF p.ok
         THEN /\ psp_pos' = p.pos
              /\ printed' = printed \cup {"PSP Position (AU relative to Sun)"}
              /\ scene' = jpl_plot_positions(p.pos)
              /\ outcome' = "returned"
         ELSE /\ outcome' = "Exception"
              /\ UNCHANGED <<psp_pos, printed, scene>>
    /\ pc' = "done"
    /\ UNCHANGED <<calls, entry, spacecraft, analysis, called, mms_pos,
                   km_per_au_used, prompted, locals, n_entered, args, surface>>

\* ------------------------------------------------------------------------
\* mms.py
\* ------------------------------------------------------------------------

\* analyze_mms without the "if position:" test of line 88: plot_positions is
\* called with whatever the fetch returned, its conversion (line 109) is
\* reached, and with None the TypeError it raises is caught at line 93
AnalyzeMms_Unguarded ==
    /\ pc = "dispatch" /\ spacecraft = "mms"
    /\ called' = Append(called, "analyze_mms")
    /\ \/ /\ analysis = "trajectory"
          /\ \E m \in MmsOutcomes :
               /\ mms_pos' = m
               /\ km_per_au_used' = km_per_au_used \cup
                    {Used("mms.plot_positions", AU_plot_positions)}
               /\ IF m.some
                  THEN /\ printed' = printed \cup {"MMS Position (km)"}
                       /\ scene' = mms_plot_positions(m)
                  ELSE /\ printed' = printed \cup
                             {"MMS Position (km)", "Error getting MMS trajectory"}
                       /\ UNCHANGED scene
          /\ UNCHANGED <<psp_pos, args, surface>>
       \/ NotTrajectory("MMS")
    /\ Return
    /\ UNCHANGED <<calls, entry, spacecraft, analysis, prompted, locals, n_entered>>

\* analyze_mms (lines 78-98)
AnalyzeMms ==
    /\ pc = "dispatch" /\ spacecraft = "mms"
    /\ called' = Append(called, "analyze_mms")
    /\ \/ /\ analysis = "trajectory"
          /\ \E m \in MmsOutcomes :
               /\ mms_pos' = m
               /\ IF m.some
                  THEN /\ printed' = printed \cup {"MMS Position (km)"}
                       /\ scene' = mms_plot_positions(m)
                       /\ km_per_au_used' = km_per_au_used \cup
                            {Used("mms.plot_positions", AU_plot_positions)}
                  ELSE /\ printed' = printed \cup {"Failed to get MMS position"}
                       /\ UNCHANGED <<scene, km_per_au_used>>
          /\ UNCHANGED <<psp_pos, args, surface>>
       \/ NotTrajectory("MMS")
    /\ Return
    /\ UNCHANGED <<calls, entry, spacecraft, analysis, prompted, locals, n_entered>>

\* main (lines 147-151)
MmsMain ==
    /\ pc = "mms.main"
    /\ \E m \in MmsOutcomes :
         /\ mms_pos' = m
         /\ IF m.some
            THEN /\ printed' = printed \cup {"MMS1 position (GSE, km)"}
                 /\ scene' = mms_plot_positions(m)
                 /\ km_per_au_used' = km_per_au_used \cup
                      {Used("mms.plot_positions", AU_plot_positions)}
            ELSE UNCHANGED <<printed, scene, km_per_au_used>>
    /\ pc' = "done"
    /\ outcome' = "returned"
    /\ UNCHANGED <<calls, entry, spacecraft, analysis, called, psp_pos, prompted,
                   locals, n_entered, args, surface>>

\* ------------------------------------------------------------------------
\* psp_plus_mms.py
\* ------------------------------------------------------------------------

\* analyze_psp_mms (lines 158-184), plot_both_positions included
AnalyzePspMms ==
    /\ pc = "dispatch" /\ spacecraft = "psp+mms"
    /\ called' = Append(called, "analyze_psp_mms")
    /\ \/ /\ analysis = "trajectory"
          /\ \E p \in PspOutcomes, m \in MmsOutcomes :
               IF ~p.ok
               THEN /\ printed' = printed \cup
                          {"Error analyzing PSP and MMS trajectories"}
                    /\ UNCHANGED <<psp_pos, mms_pos, scene, km_per_au_used>>
               ELSE /\ psp_pos' = p.pos
                    /\ mms_pos' = m
                    /\ IF p.pos.some /\ m.some
                       THEN /\ printed' = printed \cup
                                  {"PSP Position (km)", "MMS Position (km)"}
                            /\ scene' = plot_both_positions(p.pos, m)
                            /\ km_per_au_used' = km_per_au_used \cup
                                 {Used("plot_both_positions", AU_plot_both_positions)}
                       ELSE /\ printed' = printed \cup
                                  {"Failed to get positions for one or both spacecraft"}
                            /\ UNCHANGED <<scene, km_per_au_used>>
          /\ UNCHANGED <<args, surface>>
       \/ NotTrajectory("PSP+MMS combined")
    /\ Return
    /\ UNCHANGED <<calls, entry, spacecraft, analysis, prompted, locals, n_entered>>

\* main (lines 143-156), plot_spacecraft_positions included
PspPlusMmsMain ==
    /\ pc = "psp_plus_mms.main"
    /\ \E p \in PspOutcomes, m \in MmsOutcomes :
         IF ~p.ok
         THEN /\ outcome' = "Exception"
              /\ UNCHANGED <<psp_pos, mms_pos, printed, scene, km_per_au_used>>
         ELSE /\ psp_pos' = p.pos
              /\ mms_pos' = m
              /\ outcome' = "returned"
              /\ IF m = None
                 THEN /\ printed' = printed \cup
                            {"PSP Position (AU relative to Sun)",
                             "Could not retrieve MMS position."}
                      /\ UNCHANGED <<scene, km_per_au_used>>
                 ELSE /\ printed' = printed \cup
                            {"PSP Position (AU relative to Sun)",
                             "MMS Position (km relative to Earth, GSE)"}
                      /\ scene' = plot_spacecraft_positions(p.pos, m)
                      /\ km_per_au_used' = km_per_au_used \cup
                           {Used("plot_spacecraft_positions",
                                 AU_km_plot_spacecraft_positions)}
    /\ pc' = "done"
    /\ UNCHANGED <<calls, entry, spacecraft, analysis, called, prompted, locals,
                   n_entered, args, surface>>

\* ------------------------------------------------------------------------
\* psp_plus_mms_plus_parker_spiral.py
\* ------------------------------------------------------------------------

\* the conversion of line 38 is reached unless line 37 has raised
SurfaceUses(a) ==
    IF a.solar_rot_days = 0 THEN {}
    ELSE {Used("compute_parker_spiral_surface", AU_km_surface)}

\* analyze_psp_mms_parker (lines 152-183), plot_positions_with_parker and
\* its compute_parker_spiral_surface() call included
AnalyzePspMmsParker ==
    /\ pc = "dispatch" /\ spacecraft = "psp+mms+parker"
    /\ called' = Append(called, "analyze_psp_mms_parker")
    /\ \/ /\ analysis = "trajectory"
          /\ \E p \in PspOutcomes, m \in MmsOutcomes :
               IF ~p.ok
               THEN /\ printed' = printed \cup {"Error analyzing trajectories"}
                    /\ UNCHANGED <<psp_pos, mms_pos, scene, km_per_au_used,
                                   args, surface>>
               ELSE /\ psp_pos' = p.pos
                    /\ mms_pos' = m
                    /\ IF p.pos.some /\ m.some
                       THEN /\ args' = DefaultArgs
                            /\ surface' = SurfaceOfDefaults
                            /\ km_per_au_used' = km_per_au_used
                                 \cup {Used("analyze_psp_mms_parker",
                                            AU_km_analyze_psp_mms_parker)}
                                 \cup SurfaceUses(DefaultArgs)
                            /\ IF SurfaceOfDefaults.status = "ok"
                               THEN /\ scene' = plot_positions_with_parker(p.pos,
                                          MmsHelio_analyze_psp_mms_parker(m))
                                    /\ printed' = printed \cup
                                          {"PSP Position (AU)", "MMS Position (AU)",
                                           "Plot saved as 'plot_with_parker_spiral.png'"}
                               ELSE /\ printed' = printed \cup
                                          {"PSP Position (AU)", "MMS Position (AU)",
                                           "Error analyzing trajectories"}
                                    /\ UNCHANGED scene
                       ELSE /\ printed' = printed \cup
                                  {"Failed to get positions for one or both spacecraft"}
                            /\ UNCHANGED <<scene, km_per_au_used, args, surface>>
       \/ NotTrajectory("PSP+MMS+Parker Spiral")
    /\ Return
    /\ UNCHANGED <<calls, entry, spacecraft, analysis, prompted, locals, n_entered>>

\* one get_input call of main() (lines 254-258)
GetInput ==
    /\ pc = "parker.prompts"
    /\ LET opt == PromptOrder[Len(prompted) + 1]
       IN  \E text \in TextsFor(opt) :
             LET parsed == Strip(text) # <<>> /\ ParseFloat(text).ok
             IN  /\ parsed => n_entered < MaxEntered
                 /\ n_entered' = IF parsed THEN n_entered + 1 ELSE n_entered
                 /\ locals' = (opt :> get_input(text, PromptDefault(opt))) @@ locals
                 /\ prompted' = Append(prompted, opt)
                 /\ printed' = IF Strip(text) # <<>> /\ ~ParseFloat(text).ok
                               THEN printed \cup {"Invalid input. Using default value"}
                               ELSE printed
    /\ pc' = IF Len(prompted) + 1 = Len(PromptOrder) THEN "parker.run" ELSE pc
    /\ UNCHANGED <<calls, entry, spacecraft, analysis, called, psp_pos, mms_pos,
                   scene, km_per_au_used, args, surface, outcome>>

\* a call that passes the tilt as the amplitude and the amplitude as the tilt
ParkerMainArgs_Swapped(l) ==
    [r_min |-> 100, r_max |-> l["r_max"], n_r |-> 100, n_phi |-> 100,
     tilt_deg |-> l["amp_deg"], amp_deg |-> l["tilt_deg"],
     solar_rot_days |-> l["solar_rot_days"], v_sw_km_s |-> l["v_sw_km_s"]]

\* np.max(B) is inf: some cell of the field grid is infinite
HasInf(B) == \E i \in DOMAIN B : \E j \in DOMAIN B[i] : B[i][j] = Inf

\* the arguments of the call of lines 263-267
ParkerMainArgs(l) ==
    [r_min |-> 100, r_max |-> l["r_max"], n_r |-> 100, n_phi |-> 100,
     tilt_deg |-> l["tilt_deg"], amp_deg |-> l["amp_deg"],
     solar_rot_days |-> l["solar_rot_days"], v_sw_km_s |-> l["v_sw_km_s"]]

\* main() from line 263 to its end
ParkerMainRun ==
    /\ pc = "parker.run"
    /\ LET a == ParkerMainArgs(locals)
           s == compute_parker_spiral_surface(a)
       IN  /\ args' = a
           /\ surface' = s
           /\ IF s.status # "ok"
              THEN /\ outcome' = s.status
                   /\ km_per_au_used' = km_per_au_used \cup SurfaceUses(a)
                   /\ UNCHANGED <<psp_pos, mms_pos, scene, printed>>
              ELSE \E p \in PspOutcomes, m \in MmsOutcomes :
                     IF ~p.ok
                     THEN /\ outcome' = "Exception"
                          /\ km_per_au_used' = km_per_au_used \cup SurfaceUses(a)
                          /\ printed' = printed \cup {"Fetching PSP position..."}
                          /\ UNCHANGED <<psp_pos, mms_pos, scene>>
                     ELSE /\ psp_pos' = p.pos
                          /\ mms_pos' = m
                          /\ IF m = None
                             THEN /\ printed' = printed \cup
                                        {"Fetching PSP position...",
                                         "Could not retrieve MMS position."}
                                  /\ km_per_au_used' =
                                        km_per_au_used \cup SurfaceUses(a)
                                  /\ outcome' = "returned"
                                  /\ UNCHANGED scene
                             ELSE /\ km_per_au_used' = km_per_au_used
                                        \cup SurfaceUses(a)
                                        \cup {Used("parker.main", AU_km_parker_main)}
                                  /\ \/ /\ printed' = printed \cup
                                              {"Fetching PSP position...",
                                               "Plot saved as 'parker_spiral.png'"}
                                        /\ scene' = parker_main_plot(p.pos,
                                              MmsHeliocentric_parker_main(m))
                                        /\ outcome' = "returned"
                                     \/ \* with an infinite vmax the LogNorm of
                                        \* lines 298-300 raises in the
                                        \* matplotlib versions that check it
                                        /\ HasInf(surface'.B)
                                        /\ printed' = printed \cup
                                              {"Fetching PSP position..."}
                                        /\ outcome' = "ValueError"
                                        /\ UNCHANGED scene
    /\ pc' = "done"
    /\ UNCHANGED <<calls, entry, spacecraft, analysis, called, prompted, locals,
                   n_entered>>

\* a call compute_parker_spiral_surface(...) with arguments of the caller's
CallSurface ==
    /\ pc = "call"
    /\ \E a \in DirectArgs :
         LET s == compute_parker_spiral_surface(a)
         IN  /\ args' = a
             /\ surface' = s
             /\ outcome' = IF s.status = "ok" THEN "returned" ELSE s.status
             /\ km_per_au_used' = km_per_au_used \cup SurfaceUses(a)
    /\ pc' = "done"
    /\ UNCHANGED <<calls, entry, spacecraft, analysis, called, psp_pos, mms_pos,
                   scene, prompted, locals, n_entered, printed>>

\* a function that keeps one surface in a module-level cache: it returns the
\* cached surface, the one of the call before, and refreshes the cache after
CallAfter_StaleCache(earlier, a) ==
    IF earlier = <<>> THEN compute_parker_spiral_surface(a)
    ELSE compute_parker_spiral_surface(earlier[Len(earlier)].args)

\* what a call with arguments a returns when the calls of earlier have been
\* made before it: the body (lines 24-61) reads its parameters and numpy
\* only, no module-level name, no file, no clock, no random source
CallAfter(earlier, a) == compute_parker_spiral_surface(a)

\* one more call by a caller that calls several times; the function assigns
\* to its own locals only
CallSurfaceAgain ==
    /\ pc = "calls"
    /\ Len(calls) < MaxCalls
    /\ \E a \in RepeatArgs :
         LET s == CallAfter(calls, a)
         IN  /\ calls' = Append(calls, [args |-> a, surface |-> s])
             /\ args' = a
             /\ surface' = s
    /\ pc' = IF Len(calls) + 1 = MaxCalls THEN "done" ELSE pc
    /\ outcome' = IF Len(calls) + 1 = MaxCalls THEN "returned" ELSE outcome
    /\ UNCHANGED <<entry, spacecraft, analysis, called, psp_pos, mms_pos,
                   scene, km_per_au_used, prompted, locals, n_entered,
                   printed>>

Next ==
    \/ GetSpacecraftChoice
    \/ GetAnalysisChoice
    \/ Interrupt
    \/ InterruptAnalysis
    \/ PressEnter
    \/ AnalyzePsp
    \/ JplMain
    \/ AnalyzeMms
    \/ MmsMain
    \/ AnalyzePspMms
    \/ PspPlusMmsMain
    \/ AnalyzePspMmsParker
    \/ GetInput
    \/ ParkerMainRun
    \/ CallSurface
    \/ CallSurfaceAgain

Spec == Init /\ [][Next]_vars

\* the turn of each menu loop in which a valid choice is typed
ValidSpacecraftEntry == GetSpacecraftChoice /\ pc' = "menu_analysis"
ValidAnalysisEntry == GetAnalysisChoice /\ pc' = "dispatch"

\* the steps main() of main.py takes on its own once the menus are done
Dispatch == AnalyzePsp \/ AnalyzeMms \/ AnalyzePspMms \/ AnalyzePspMmsParker

\* the runs in which a user at a menu eventually types a valid choice, the
\* analysis function called comes back and Enter is pressed at the last prompt
FairSpec ==
    /\ Spec
    /\ WF_vars(ValidSpacecraftEntry)
    /\ WF_vars(ValidAnalysisEntry)
    /\ WF_vars(Dispatch)
    /\ WF_vars(PressEnter)

\* ------------------------------------------------------------------------
\* Properties
\* ------------------------------------------------------------------------

\* a figure has been drawn
Drawn == scene # <<>>

\* the scatter calls of the figure for one body
ScatterOf(body) == {scene[k] : k \in {k \in DOMAIN scene : scene[k].body = body}}

Origin == Vec(RInt(0), RInt(0), RInt(0))

\* the frame of the figure's axes: where it puts the Sun and the Earth
SceneFrame ==
    IF \E e \in ScatterOf("Sun") : e.v = Origin THEN "heliocentric"
    ELSE IF \E e \in ScatterOf("Earth") : e.v = Origin THEN "GSE"
    ELSE "unknown"

\* compute_parker_spiral_surface has been called in this run
SurfaceCalled == surface.status # "none"

\* the parameter sets the surface model's contract admits
ValidArgs(a) ==
    /\ 0 < a.r_min /\ a.r_min < a.r_max
    /\ a.solar_rot_days > 0 /\ a.v_sw_km_s > 0

\* (1 + x/K, y/K, z/K) for K = 149,597,870.7 km per AU
C1_Expected(v) ==
    Vec(RatAdd(RInt(1), RatDivConst(v[1], 1495978707)),
        RatDivConst(v[2], 1495978707),
        RatDivConst(v[3], 1495978707))

\* C1: in every heliocentric figure the MMS point is the fetched GSE
\* position divided by 149,597,870.7 km per AU and then shifted by (1, 0, 0)
\* AU, so that (149597870.7, 149597870.7, 0) km is drawn at (2, 1, 0) AU.
C1_MmsDividedThenShifted ==
    (Drawn /\ SceneFrame = "heliocentric") =>
        \A e \in ScatterOf("MMS") : e.v = C1_Expected(mms_pos.v)

\* C2: every km -> AU conversion the program executes divides by the same
\* constant, 149,597,870.7 km per AU.
C2_OneKmPerAuConstant ==
    \A u \in km_per_au_used : u.value = 1495978707

\* C3: on every path the PSP point handed to scatter is the position the
\* fetch returned, unscaled and unshifted.
C3_PspPlottedUnchanged ==
    Drawn => \A e \in ScatterOf("PSP") : e.v = psp_pos.v

\* C4: every spacecraft point of a figure is in the frame of the figure's
\* axes and in AU.
C4_OneFrameOneUnit ==
    Drawn => \A e \in ScatterOf("PSP") \cup ScatterOf("MMS") :
                 e.frame = SceneFrame /\ e.unit = "AU"

\* C5: a call with v_sw_km_s = 0, solar_rot_days <= 0, r_min <= 0 or
\* r_min >= r_max ends in InvalidParameterError and returns no grids.
C5_InvalidArgsRejected ==
    (SurfaceCalled /\ ~ValidArgs(args)) => surface.status = "InvalidParameterError"

HasShape(g, rows, cols) ==
    /\ DOMAIN g = 1..rows
    /\ \A i \in 1..rows : DOMAIN g[i] = 1..cols

\* the indices of an axis of n samples at which cells are compared: all of
\* them on a small grid, the ends and the middle on a large one
Compared(n) ==
    IF n <= MaxGrid + 1 THEN 1..n ELSE {1, 2, n \div 2, n - 1, n}

\* C6: the grids x, y, z and B a call with valid parameters returns all have
\* shape (n_phi, n_r), and cell (i, j) of each is computed from radius
\* sample r_vals[j] and azimuth sample phi_vals[i]: the field value of a
\* cell belongs to that cell's point.
C6_GridsCoRegistered ==
    (surface.status = "ok" /\ ValidArgs(args)) =>
        LET r_vals == R_vals(args)
            phi_vals == Phi_vals(args)
            tilt == Tilt(args)
            amp == Amp(args)
            alpha == Alpha(args)
            omega == Omega(args)
            v == V_sw_AU_day(args)
            b0 == B0_norm(args)
        IN  /\ HasShape(surface.x, args.n_phi, args.n_r)
            /\ HasShape(surface.y, args.n_phi, args.n_r)
            /\ HasShape(surface.z, args.n_phi, args.n_r)
            /\ HasShape(surface.B, args.n_phi, args.n_r)
            /\ \A i \in Compared(args.n_phi) : \A j \in Compared(args.n_r) :
                 LET r == r_vals[j]
                     theta == ThetaCell(tilt, amp, phi_vals[i])
                     phi_spiral == PhiSpiralCell(alpha, args.r_min, r, phi_vals[i])
                 IN  /\ surface.x[i][j] = XCell(r, theta, phi_spiral)
                     /\ surface.y[i][j] = YCell(r, theta, phi_spiral)
                     /\ surface.z[i][j] = ZCell(r, theta)
                     /\ surface.B[i][j] = BCell(b0, omega, v, r, theta)

\* a valid call whose grid is not square and whose cells differ along both
\* axes
C6_Witness ==
    /\ surface.status = "ok" /\ ValidArgs(args)
    /\ args.n_phi = 3 /\ args.n_r = 2
    /\ surface.B[1][1] # surface.B[1][2]
    /\ surface.x[1][2] # surface.x[2][2]

\* C7: for valid parameters the twist alpha * (R - r_min) is zero in every
\* cell of the innermost radial column, the twisted azimuth there is the
\* untwisted one, and it is 0 in the cell at phi = 0.
C7_NoTwistAtInnerRadius ==
    (surface.status = "ok" /\ ValidArgs(args)) =>
        LET twist == TwistGrid(args)
            Phi == PhiGrid(args)
            Phi_spiral == PhiSpiralGrid(args)
        IN  /\ \A i \in 1..args.n_phi :
                  /\ twist[i][1] = 0
                  /\ Phi_spiral[i][1] = Phi[i][1]
            /\ Phi_spiral[1][1] = 0

\* a valid call whose twist is not zero away from the innermost column
C7_Witness ==
    /\ surface.status = "ok" /\ ValidArgs(args)
    /\ args.n_r >= 2 /\ args.n_phi >= 2
    /\ TwistGrid(args)[2][2] > 0
    /\ PhiGrid(args)[2][1] > 0

\* C8: for 0 < r_min < r_max, solar_rot_days > 0 and v_sw_km_s > 0 every
\* cell of B is strictly positive and every radius that enters the field
\* formula is strictly positive.
C8_FieldPositive ==
    (surface.status = "ok" /\ ValidArgs(args)) =>
        LET R == RGrid(args)
        IN  \A i \in 1..args.n_phi : \A j \in 1..args.n_r :
                surface.B[i][j] > 0 /\ R[i][j] > 0

\* a valid call made by main() with an outer radius the user entered
C8_Witness ==
    /\ entry = "parker.main" /\ surface.status = "ok" /\ ValidArgs(args)
    /\ args.r_max = 3000
    /\ surface.B[1][100] > 0

IsDefaultCall == called = <<"analyze_psp_mms_parker">> /\ SurfaceCalled

\* C9: the call without arguments uses tilt 10.0 deg, amplitude 15.0 deg,
\* period 25.4 days, wind speed 400.0 km/s, r_min 0.1, r_max 1.5 and a
\* 100 x 100 grid; its first radial sample is r_min, its last r_max, and
\* the samples increase strictly from one to the next.
C9_DefaultsSpanRadialRange ==
    IsDefaultCall =>
        LET R == RGrid(args)
        IN  /\ args = [r_min |-> 100, r_max |-> 1500, n_r |-> 100,
                       n_phi |-> 100, tilt_deg |-> 10000, amp_deg |-> 15000,
                       solar_rot_days |-> 25400, v_sw_km_s |-> 400000]
            /\ surface.status = "ok"
            /\ HasShape(surface.B, 100, 100)
            /\ HasShape(R, 100, 100)
            /\ \A i \in 1..100 :
                  /\ R[i][1] = 100
                  /\ R[i][100] = 1500
                  /\ \A j \in 1..99 : R[i][j] < R[i][j + 1]

\* plot_positions_with_parker has computed and drawn its surface
C9_Witness ==
    /\ IsDefaultCall /\ surface.status = "ok" /\ Drawn
    /\ RGrid(args)[100][50] > 100 /\ RGrid(args)[100][50] < 1500

AllOptions ==
    {"tilt_deg", "amp_deg", "solar_rot_days", "v_sw_km_s", "r_min", "r_max",
     "grid"}

Prompted == {prompted[k] : k \in DOMAIN prompted}

MainCalledSurface == entry = "parker.main" /\ SurfaceCalled

\* C10 as claimed: main() asks for each of the seven options (tilt,
\* amplitude, rotation period, wind speed, inner radius, outer radius, grid
\* resolution) before it calls compute_parker_spiral_surface.
C10_AllSevenPrompted ==
    MainCalledSurface => Prompted = AllOptions

\* C10 as amended: main() asks for five options (tilt, amplitude, rotation
\* period, wind speed, outer radius); the value get_input returned for each
\* is the one passed, an option left unanswered is passed at its default,
\* and the inner radius and the grid resolution are always 0.1 and 100 x 100.
C10_FivePromptedAndPassed ==
    MainCalledSurface =>
        /\ Prompted = {"tilt_deg", "amp_deg", "solar_rot_days", "v_sw_km_s", "r_max"}
        /\ args.tilt_deg = locals["tilt_deg"]
        /\ args.amp_deg = locals["amp_deg"]
        /\ args.solar_rot_days = locals["solar_rot_days"]
        /\ args.v_sw_km_s = locals["v_sw_km_s"]
        /\ args.r_max = locals["r_max"]
        /\ args.r_min = 100 /\ args.n_r = 100 /\ args.n_phi = 100
        /\ n_entered = 0 =>
              args = [r_min |-> 100, r_max |-> 1500, n_r |-> 100, n_phi |-> 100,
                      tilt_deg |-> 10000, amp_deg |-> 15000,
                      solar_rot_days |-> 25400, v_sw_km_s |-> 400000]

\* main() has passed a wind speed the user typed, the rest at the defaults
C10_Witness ==
    /\ MainCalledSurface /\ n_entered = 1
    /\ args.v_sw_km_s = 800000 /\ args.r_max = 1500 /\ args.tilt_deg = 10000
    /\ surface.status = "ok"

\* the sites that convert an MMS position, as km_per_au_used names them
MmsConversionSites ==
    {"plot_spacecraft_positions", "plot_both_positions", "mms.plot_positions",
     "analyze_psp_mms_parker", "parker.main"}

\* the run holds no MMS position: the fetch returned None (or was not made)
NoMmsPosition == ~mms_pos.some

\* C11: while the run holds no MMS position, none of the MMS conversions has
\* been executed and no MMS point has been drawn; every MMS point drawn comes
\* from a fetched position of three components.
C11_NoConversionOfNone ==
    /\ NoMmsPosition =>
          /\ ScatterOf("MMS") = {}
          /\ \A u \in km_per_au_used : u.site \notin MmsConversionSites
    /\ ScatterOf("MMS") # {} => mms_pos.some /\ Len(mms_pos.v) = 3

\* main() of the Parker module has fetched PSP's position, got None for
\* MMS's, and returned
C11_Witness ==
    /\ entry = "parker.main" /\ pc = "done" /\ outcome = "returned"
    /\ psp_pos.some /\ NoMmsPosition
    /\ "Could not retrieve MMS position." \in printed

\* the messages the except clauses of the analyze_* functions print
CaughtMessages ==
    {"Error getting PSP trajectory", "Error getting MMS trajectory",
     "Error analyzing PSP and MMS trajectories", "Error analyzing trajectories"}

\* an analyze_* function called directly has come back to its caller
AnalyzeReturned == entry = "analyze" /\ pc = "done" /\ outcome = "returned"

\* C12: a failure raised while an analyze_* function fetches, converts or
\* computes reaches the function's caller as a failure: no run prints the
\* message of an except clause and then returns normally.
C12_FailuresPropagate ==
    AnalyzeReturned => printed \cap CaughtMessages = {}

TwistGrowsWithRadius(twist, n_phi, n_r) ==
    /\ \A i \in 1..n_phi : \A j \in 1..n_r :
          twist[i][j] = twist[1][j] /\ twist[i][j] >= 0
    /\ \A i \in 1..n_phi : \A j \in 1..(n_r - 1) : twist[i][j] < twist[i][j + 1]

\* C14 as claimed: for every valid parameter set the twist depends on the
\* radial index only, is non-negative, increases strictly from one radial
\* index to the next, and at the outermost radial index it equals
\* alpha * (r_max - r_min).
C14_TwistGrowsToOuterRadius ==
    (surface.status = "ok" /\ ValidArgs(args)) =>
        LET twist == TwistGrid(args)
        IN  /\ TwistGrowsWithRadius(twist, args.n_phi, args.n_r)
            /\ \A i \in 1..args.n_phi :
                  twist[i][args.n_r] = Mul(Alpha(args), args.r_max - args.r_min)

\* C14 as amended: the same, with the value at the outermost radial index
\* stated for grids of two or more radial samples; with a single radial
\* sample the only radius is r_min and the twist is 0.
C14_TwistGrowsToOuterRadiusOfGrid ==
    (surface.status = "ok" /\ ValidArgs(args)) =>
        LET twist == TwistGrid(args)
        IN  /\ TwistGrowsWithRadius(twist, args.n_phi, args.n_r)
            /\ \A i \in 1..args.n_phi :
                  twist[i][args.n_r] =
                      IF args.n_r >= 2
                      THEN Mul(Alpha(args), args.r_max - args.r_min)
                      ELSE 0

\* a valid call with three radial samples and a twist that differs at each
C14_Witness ==
    /\ surface.status = "ok" /\ ValidArgs(args)
    /\ args.n_r = 3 /\ args.n_phi = 2
    /\ TwistGrid(args)[2][1] = 0
    /\ TwistGrid(args)[2][2] > 0
    /\ TwistGrid(args)[2][3] > TwistGrid(args)[2][2]

\* the values main() holds when nothing has been entered
PromptDefaults == [opt \in {PromptOrder[k] : k \in DOMAIN PromptOrder} |-> PromptDefault(opt)]

\* what main() passes for option opt when text is typed at its prompt and
\* nothing at the others
PassedFor(opt, text) ==
    ParkerMainArgs([PromptDefaults EXCEPT ![opt] = get_input(text, PromptDefault(opt))])[opt]

\* C15: get_input returns the default for an empty or blank entry and for
\* text that is no number, and the number typed otherwise, whatever its
\* sign or size; main() passes what get_input returned, so a zero or
\* negative period, wind speed or radial extent, and a radial extent not
\* above 0.1, are passed to compute_parker_spiral_surface.
C15_NoRangeCheck ==
    /\ \A d \in {25400, 400000, 1500} :
          /\ get_input(TxtEmpty, d) = d
          /\ get_input(TxtBlank, d) = d
          /\ get_input(TxtAbc, d) = d
          /\ get_input(Txt0, d) = 0
          /\ get_input(TxtNeg27, d) = -27000
          /\ get_input(TxtNeg400, d) = -400000
          /\ get_input(Txt005, d) = 50
          /\ get_input(Txt800, d) = 800000
    /\ PassedFor("solar_rot_days", Txt0) = 0
    /\ PassedFor("solar_rot_days", TxtNeg27) < 0
    /\ PassedFor("v_sw_km_s", Txt0) = 0
    /\ PassedFor("v_sw_km_s", TxtNeg400) < 0
    /\ PassedFor("r_max", Txt0) = 0
    /\ PassedFor("r_max", Txt005) <= 100
    /\ MainCalledSurface =>
          /\ args.solar_rot_days = locals["solar_rot_days"]
          /\ args.v_sw_km_s = locals["v_sw_km_s"]
          /\ args.r_max = locals["r_max"]
          /\ (args.solar_rot_days = 0 \/ args.v_sw_km_s = 0)
                => surface.status = "ZeroDivisionError"
          /\ (args.solar_rot_days # 0 /\ args.v_sw_km_s # 0)
                => surface.status = "ok"

\* main() has passed the radial extent 0 the user typed, and the surface
\* computed from it has an infinite field value at its last radius
C15_Witness ==
    /\ MainCalledSurface /\ n_entered = 1
    /\ locals["r_max"] = 0 /\ args.r_max = 0 /\ args.r_min = 100
    /\ surface.status = "ok"
    /\ surface.B[1][100] = Inf

InMenus == pc \in {"menu_spacecraft", "menu_analysis"}

\* get_user_input has returned its pair to main()
UserInputReturned == entry = "main.py" /\ pc \in {"dispatch"}

\* what holds of the menus in every state
MenuState ==
    entry = "main.py" =>
        /\ pc = "menu_spacecraft" => spacecraft = "" /\ analysis = ""
        /\ pc = "menu_analysis" => spacecraft \in Spacecrafts /\ analysis = ""
        /\ UserInputReturned =>
              <<spacecraft, analysis>> \in
                  {"psp", "mms", "psp+mms", "psp+mms+parker"}
                      \X {"trajectory", "data_retrieval"}

\* what holds of every step taken at a menu: the prompt stays the same
\* unless a valid choice was typed (or the user interrupts)
MenuStep ==
    /\ pc = "menu_spacecraft" =>
          \/ pc' = "menu_spacecraft" /\ spacecraft' = ""
          \/ pc' = "menu_analysis" /\ spacecraft' \in Spacecrafts
          \/ pc' = "exit_prompt" /\ "Program terminated by user" \in printed'
    /\ pc = "menu_analysis" =>
          \/ pc' = "menu_analysis" /\ analysis' = ""
          \/ pc' = "dispatch" /\ analysis' \in {"trajectory", "data_retrieval"}
          \/ pc' = "exit_prompt" /\ "Program terminated by user" \in printed'

\* C16: get_user_input asks the spacecraft menu until a choice in 1..4 is
\* typed, only then the analysis menu, until a choice in 1..2 is typed; the
\* pair it returns is one of the four spacecraft names with one of the two
\* analysis names; and when valid choices eventually are typed it is left.
C16_MenusLoopUntilValid ==
    /\ []MenuState
    /\ [][MenuStep]_vars
    /\ (entry = "main.py" /\ InMenus) ~> ~InMenus

\* get_user_input has returned after a rejected entry at each menu
C16_Witness ==
    /\ UserInputReturned
    /\ spacecraft = "psp+mms+parker" /\ analysis = "data_retrieval"
    /\ "Please enter a number between 1 and 4" \in printed
    /\ "Please enter a valid number" \in printed
    /\ "Please enter either 1 or 2" \in printed

\* main() of main.py is at or past its last line
AtExit == entry = "main.py" /\ pc \in {"exit_prompt", "done"}

ExitPromptShown == "Press Enter to exit..." \in printed

\* at most one analyze_* call, the one the selection names
CalledMatchesSelection ==
    /\ Len(called) <= 1
    /\ called # <<>> =>
          \/ spacecraft = "psp" /\ called[1] = "analyze_psp"
          \/ spacecraft = "mms" /\ called[1] = "analyze_mms"
          \/ spacecraft = "psp+mms" /\ called[1] = "analyze_psp_mms"
          \/ spacecraft = "psp+mms+parker" /\ called[1] = "analyze_psp_mms_parker"

\* C17 as claimed: every run of main() calls exactly one analyze_* function,
\* the one matching the spacecraft selected, and reaches the final
\* 'Press Enter to exit' prompt afterwards, also when the call raises or
\* the input is interrupted.
C17_ExactlyOneCallThenExitPrompt ==
    /\ [](entry = "main.py" => CalledMatchesSelection)
    /\ [](AtExit => Len(called) = 1)
    /\ []((entry = "main.py" /\ pc = "done") => ExitPromptShown)
    /\ (entry = "main.py") ~> ExitPromptShown

\* C17 as amended: a run in which get_user_input returned calls exactly one
\* analyze_* function, the one matching the spacecraft selected; a run
\* interrupted at a menu calls none; in both, and also when the call is
\* left by an exception, the final 'Press Enter to exit' prompt is reached.
C17_OneCallAfterSelectionThenExitPrompt ==
    /\ [](entry = "main.py" => CalledMatchesSelection)
    /\ [](AtExit => IF analysis # "" THEN Len(called) = 1 ELSE called = <<>>)
    /\ []((entry = "main.py" /\ pc = "done") => ExitPromptShown)
    /\ (entry = "main.py") ~> ExitPromptShown

\* the final prompt has been shown after analyze_psp_mms was called and left
\* by an exception
C17_Witness ==
    /\ entry = "main.py" /\ pc = "done" /\ ExitPromptShown
    /\ called = <<"analyze_psp_mms">> /\ spacecraft = "psp+mms"
    /\ "Program terminated by user" \in printed

\* an analyze_* function has been called, from the menu or directly
AnalyzeCalled == entry \in {"main.py", "analyze"} /\ called # <<>>

\* what each analyze_* function prints for 'data_retrieval'
NotImplementedMessage ==
    CASE spacecraft = "psp" -> "PSP data retrieval not yet implemented"
      [] spacecraft = "mms" -> "MMS data retrieval not yet implemented"
      [] spacecraft = "psp+mms" ->
            "PSP+MMS combined data retrieval not yet implemented"
      [] spacecraft = "psp+mms+parker" ->
            "PSP+MMS+Parker Spiral data retrieval not yet implemented"

\* the messages of main.py itself
MainMessages ==
    {"Please enter a number between 1 and 4", "Please enter a valid number",
     "Please enter either 1 or 2", "Program terminated by user",
     "Press Enter to exit..."}

\* the surface of the parameters written in the signature (lines 24-26)
SurfaceOfSignature ==
    compute_parker_spiral_surface(
        [r_min |-> 100, r_max |-> 1500, n_r |-> 100, n_phi |-> 100,
         tilt_deg |-> 10000, amp_deg |-> 15000,
         solar_rot_days |-> 25400, v_sw_km_s |-> 400000])

\* C18: an analyze_* function called with an analysis type other than
\* 'trajectory' fetches, converts, computes and draws nothing and prints its
\* one message; and the surface analyze_psp_mms_parker draws is the one of
\* the default parameters, no parameter having been asked of the user.
C18_OnlyTrajectoryFetchesAndPlots ==
    /\ (AnalyzeCalled /\ analysis # "trajectory") =>
          /\ psp_pos = None /\ mms_pos = None
          /\ scene = <<>> /\ km_per_au_used = {}
          /\ ~SurfaceCalled
          /\ printed \subseteq MainMessages \cup
                {IF analysis = "data_retrieval" THEN NotImplementedMessage
                 ELSE "Unknown analysis type"}
          /\ (entry = "analyze" /\ outcome = "returned") =>
                printed = {IF analysis = "data_retrieval"
                           THEN NotImplementedMessage
                           ELSE "Unknown analysis type"}
    /\ (AnalyzeCalled /\ SurfaceCalled) =>
          /\ called = <<"analyze_psp_mms_parker">> /\ analysis = "trajectory"
          /\ prompted = <<>> /\ locals = <<>>
          /\ args = [r_min |-> 100, r_max |-> 1500, n_r |-> 100, n_phi |-> 100,
                     tilt_deg |-> 10000, amp_deg |-> 15000,
                     solar_rot_days |-> 25400, v_sw_km_s |-> 400000]
          /\ surface = SurfaceOfSignature
          /\ Drawn

\* the menu run that chose PSP + MMS + Parker Spiral and data retrieval has
\* ended
C18_Witness ==
    /\ entry = "main.py" /\ pc = "done"
    /\ called = <<"analyze_psp_mms_parker">> /\ analysis = "data_retrieval"
    /\ "PSP+MMS+Parker Spiral data retrieval not yet implemented" \in printed
    /\ ~Drawn

=============================================================================
